---------------------------- MODULE Spec2Model ----------------------------
(***************************************************************************)
(* A model of the Version class of src/solution.py (src/Solution.py is the *)
(* same program with the two patterns at module level): the two regular    *)
(* expressions, the construction of a Version from a string, and the      *)
(* comparison operators.                                                   *)
(*                                                                         *)
(* A Python str is a sequence of one-character strings; None is the tuple  *)
(* <<"None">>, which is no sequence of characters.                         *)
(***************************************************************************)
EXTENDS Integers, Sequences, FiniteSets, TLC

VARIABLES
    text,      \* the argument of the last Version(...) call
    outcome,   \* "none" | "pending" | "ok" | "ValueError": how that call ended
    a,         \* the Version constructed last (NoVersion before the first)
    b          \* the Version constructed before a

vars == <<text, outcome, a, b>>

----------------------------------------------------------------------------
(* Characters and strings.                                                 *)

None == <<"None">>

DigitSeq == <<"0", "1", "2", "3", "4", "5", "6", "7", "8", "9">>

UpperSeq ==
    <<"A", "B", "C", "D", "E", "F", "G", "H", "I", "J", "K", "L", "M",
      "N", "O", "P", "Q", "R", "S", "T", "U", "V", "W", "X", "Y", "Z">>

LowerSeq ==
    <<"a", "b", "c", "d", "e", "f", "g", "h", "i", "j", "k", "l", "m",
      "n", "o", "p", "q", "r", "s", "t", "u", "v", "w", "x", "y", "z">>

Range(f) == {f[i] : i \in DOMAIN f}

Digits == Range(DigitSeq)

NonZeroDigits == Digits \ {"0"}

Letters == Range(UpperSeq) \cup Range(LowerSeq)

\* The class [0-9A-Za-z-] of both patterns.
IdentChars == Digits \cup Letters \cup {"-"}

Chars == IdentChars \cup {".", "+", " ", "\n"}

IndexIn(seq, c) == CHOOSE i \in DOMAIN seq : seq[i] = c

\* The code point of a character: Python orders str by code points.
ord ==
    [c \in Chars |->
        IF c \in Digits THEN 47 + IndexIn(DigitSeq, c)
        ELSE IF c \in Range(UpperSeq) THEN 64 + IndexIn(UpperSeq, c)
        ELSE IF c \in Range(LowerSeq) THEN 96 + IndexIn(LowerSeq, c)
        ELSE IF c = "-" THEN 45
        ELSE IF c = "." THEN 46
        ELSE IF c = "+" THEN 43
        ELSE IF c = " " THEN 32
        ELSE 10]

DigitValue == [c \in Digits |-> IndexIn(DigitSeq, c) - 1]

\* The character at position i, "" past either end.
At(s, i) == IF i \in 1..Len(s) THEN s[i] ELSE ""

RECURSIVE StrLess(_, _)
\* x < y on Python str: the first differing code point decides, a proper
\* prefix is smaller.
StrLess(x, y) ==
    IF y = <<>> THEN FALSE
    ELSE IF x = <<>> THEN TRUE
    ELSE IF ord[Head(x)] < ord[Head(y)] THEN TRUE
    ELSE IF ord[Head(x)] > ord[Head(y)] THEN FALSE
    ELSE StrLess(Tail(x), Tail(y))

\* str.isdigit(): non-empty and every character a digit.
isdigit(x) == x # <<>> /\ \A i \in DOMAIN x : x[i] \in Digits

RECURSIVE int(_)
\* int(x) of a run of decimal digits.
int(x) ==
    IF x = <<>> THEN 0
    ELSE 10 * int(SubSeq(x, 1, Len(x) - 1)) + DigitValue[x[Len(x)]]

RECURSIVE str(_)
\* The decimal spelling of a natural number, as an f-string writes it.
str(n) ==
    IF n < 10 THEN <<DigitSeq[n + 1]>>
    ELSE Append(str(n \div 10), DigitSeq[(n % 10) + 1])

RECURSIVE SplitFrom(_, _, _)
\* x.split("."), reading x from position i with cur the piece read so far.
SplitFrom(x, i, cur) ==
    IF i > Len(x) THEN <<cur>>
    ELSE IF x[i] = "." THEN <<cur>> \o SplitFrom(x, i + 1, <<>>)
    ELSE SplitFrom(x, i + 1, Append(cur, x[i]))

split(x) == SplitFrom(x, 1, <<>>)

----------------------------------------------------------------------------
(* The regular expressions.  A piece of a pattern tried at position i is   *)
(* the set of positions where a match of it can end (the position of the   *)
(* next character to read): backtracking tries every one of them.          *)

RECURSIVE ClassRunEnds(_, _, _)
\* [C]* at position i.
ClassRunEnds(s, i, C) ==
    {i} \cup (IF At(s, i) \in C THEN ClassRunEnds(s, i + 1, C) ELSE {})

\* 0|[1-9]\d* at position i.
NumericEnds(s, i) ==
    (IF At(s, i) = "0" THEN {i + 1} ELSE {})
    \cup (IF At(s, i) \in NonZeroDigits
          THEN ClassRunEnds(s, i + 1, Digits) ELSE {})

\* 0|[1-9]\d*|[A-Za-z-][0-9A-Za-z-]* at position i.
PreIdentEnds(s, i) ==
    NumericEnds(s, i)
    \cup (IF At(s, i) \in Letters \cup {"-"}
          THEN ClassRunEnds(s, i + 1, IdentChars) ELSE {})

RECURSIVE PrereleaseEnds(_, _)
\* One prerelease identifier, then any number of "." and an identifier.
PrereleaseEnds(s, i) ==
    LET first == PreIdentEnds(s, i)
    IN  first \cup UNION {PrereleaseEnds(s, e + 1) :
                             e \in {f \in first : At(s, f) = "."}}

\* [0-9A-Za-z-]+ at position i.
BuildIdentEnds(s, i) ==
    IF At(s, i) \in IdentChars
    THEN ClassRunEnds(s, i + 1, IdentChars) ELSE {}

RECURSIVE BuildEnds(_, _)
\* One build identifier, then any number of "." and an identifier.
BuildEnds(s, i) ==
    LET first == BuildIdentEnds(s, i)
    IN  first \cup UNION {BuildEnds(s, e + 1) :
                             e \in {f \in first : At(s, f) = "."}}

\* $ without re.MULTILINE: at the end of the string, or just before a
\* newline that is the string's last character.
AtDollar(s, i) ==
    \/ i = Len(s) + 1
    \/ i = Len(s) /\ s[i] = "\n"

\* ^major\.minor\.patch : the triples <<e1, e2, e3>> of the positions of
\* the two dots and of the end of patch.
CoreEnds(s) ==
    UNION {UNION {{<<e1, e2, e3>> : e3 \in NumericEnds(s, e2 + 1)} :
                  e2 \in {x \in NumericEnds(s, e1 + 1) : At(s, x) = "."}} :
           e1 \in {x \in NumericEnds(s, 1) : At(s, x) = "."}}

NoMatch == [matched |-> FALSE]

MatchObject(s, c, pre, build) ==
    [matched |-> TRUE,
     major |-> SubSeq(s, 1, c[1] - 1),
     minor |-> SubSeq(s, c[1] + 1, c[2] - 1),
     patch |-> SubSeq(s, c[2] + 1, c[3] - 1),
     prerelease |-> pre,
     build |-> build]

\* The optional "-" prerelease group after position i: <<capture, end>>.
StrictPreOptions(s, i) ==
    {<<None, i>>}
    \cup (IF At(s, i) = "-"
          THEN {<<SubSeq(s, i + 1, e - 1), e>> : e \in PrereleaseEnds(s, i + 1)}
          ELSE {})

\* The optional "+" build group after position i: <<capture, end>>.
StrictBuildOptions(s, i) ==
    {<<None, i>>}
    \cup (IF At(s, i) = "+"
          THEN {<<SubSeq(s, i + 1, e - 1), e>> : e \in BuildEnds(s, i + 1)}
          ELSE {})

\* Every way PATTERN matches s.
PATTERN(s) ==
    UNION {UNION {{MatchObject(s, c, p[1], bd[1]) :
                      bd \in {x \in StrictBuildOptions(s, p[2]) :
                                 AtDollar(s, x[2])}} :
                  p \in StrictPreOptions(s, c[3])} :
           c \in CoreEnds(s)}

\* (?:rc|[a-zA-Z])\d* at position i.
TagEnds(s, i) ==
    UNION {ClassRunEnds(s, e, Digits) :
           e \in (IF At(s, i) = "r" /\ At(s, i + 1) = "c" THEN {i + 2} ELSE {})
                 \cup (IF At(s, i) \in Letters THEN {i + 1} ELSE {})}

\* The optional tag group after position i: <<capture, end>>.
CompatPreOptions(s, i) ==
    {<<None, i>>} \cup {<<SubSeq(s, i, e - 1), e>> : e \in TagEnds(s, i)}

\* Every way COMPATIBILITY_MODE matches s.
COMPATIBILITY_MODE(s) ==
    UNION {{MatchObject(s, c, p[1], None) :
               p \in {x \in CompatPreOptions(s, c[3]) : AtDollar(s, x[2])}} :
           c \in CoreEnds(s)}

\* re.match(pattern, s): a match object, or NoMatch for None.
re_match(matches) ==
    IF matches = {} THEN NoMatch ELSE CHOOSE m \in matches : TRUE

----------------------------------------------------------------------------
(* The Version class.                                                      *)

\* The truth value of a str-or-None: None and "" are false.
Truthy(x) == x # None /\ x # <<>>

\* Every way ^(rc|[a-zA-Z])(\d*)$ matches x: the groups <<prefix, number>>.
NormalizeMatches(x) ==
    UNION {{<<SubSeq(x, 1, e - 1), SubSeq(x, e, f - 1)>> :
               f \in {g \in ClassRunEnds(x, e, Digits) : AtDollar(x, g)}} :
           e \in (IF At(x, 1) = "r" /\ At(x, 2) = "c" THEN {3} ELSE {})
                 \cup (IF At(x, 1) \in Letters THEN {2} ELSE {})}

\* _normalize_prerelease without the int() that drops leading zeros.
_normalize_prerelease_keeps_zeros(prerelease_str) ==
    LET ms == NormalizeMatches(prerelease_str)
    IN  IF ms # {}
        THEN LET m == CHOOSE g \in ms : TRUE
             IN  IF m[2] # <<>> THEN m[1] \o <<"-">> \o m[2] ELSE m[1]
        ELSE prerelease_str

_normalize_prerelease(prerelease_str) ==
    LET ms == NormalizeMatches(prerelease_str)
    IN  IF ms # {}
        THEN LET m == CHOOSE g \in ms : TRUE
                 prefix == m[1]
                 number == m[2]
             IN  IF number # <<>>
                 THEN prefix \o <<"-">> \o str(int(number))
                 ELSE prefix
        ELSE prerelease_str

\* The fields _set_values leaves in the object __init__ has prepared.
_set_values(version, match, comp_match) ==
    LET g == IF match.matched THEN match ELSE comp_match
        prerelease == g.prerelease
    IN  [raised |-> FALSE,
         major |-> int(g.major),
         minor |-> int(g.minor),
         patch |-> int(g.patch),
         prerelease |->
             IF Truthy(prerelease) /\ ~match.matched
             THEN _normalize_prerelease(prerelease)
             ELSE prerelease,
         build |-> IF match.matched THEN match.build ELSE None,
         version |-> version]

\* Version(version) raised ValueError: no object.
ValueError == [raised |-> TRUE]

\* Version(version): the object, or ValueError.
__init__(version) ==
    LET match == re_match(PATTERN(version))
        comp_match == re_match(COMPATIBILITY_MODE(version))
    IN  IF ~match.matched /\ ~comp_match.matched
        THEN ValueError
        ELSE _set_values(version, match, comp_match)

RECURSIVE CompareCoreFrom(_, _, _)
\* The loop of compare_core from the k-th pair of the zip on.
CompareCoreFrom(xs, ys, k) ==
    IF k > Len(xs) THEN 0
    ELSE IF xs[k] < ys[k] THEN -1
    ELSE IF xs[k] > ys[k] THEN 1
    ELSE CompareCoreFrom(xs, ys, k + 1)

\* compare_core walking the components from patch to major.
compare_core_patch_first(self, other) ==
    CompareCoreFrom(<<self.patch, self.minor, self.major>>,
                    <<other.patch, other.minor, other.major>>, 1)

compare_core(self, other) ==
    CompareCoreFrom(<<self.major, self.minor, self.patch>>,
                    <<other.major, other.minor, other.patch>>, 1)

Min(m, n) == IF m < n THEN m ELSE n

RECURSIVE ComparePartsFrom_mixed_less(_, _, _)
\* The loop with -1 for a numeric against a non-numeric identifier in
\* either order.
ComparePartsFrom_mixed_less(id1_parts, id2_parts, k) ==
    IF k > Min(Len(id1_parts), Len(id2_parts))
    THEN IF Len(id1_parts) < Len(id2_parts) THEN -1
         ELSE IF Len(id1_parts) > Len(id2_parts) THEN 1
         ELSE 0
    ELSE LET id1 == id1_parts[k]
             id2 == id2_parts[k]
             is_num1 == isdigit(id1)
             is_num2 == isdigit(id2)
         IN  IF is_num1 /\ is_num2
             THEN IF int(id1) < int(id2) THEN -1
                  ELSE IF int(id1) > int(id2) THEN 1
                  ELSE ComparePartsFrom_mixed_less(id1_parts, id2_parts, k + 1)
             ELSE IF ~is_num1 /\ ~is_num2
             THEN IF StrLess(id1, id2) THEN -1
                  ELSE IF StrLess(id2, id1) THEN 1
                  ELSE ComparePartsFrom_mixed_less(id1_parts, id2_parts, k + 1)
             ELSE -1

RECURSIVE ComparePartsFrom_as_strings(_, _, _)
\* The loop comparing numeric identifiers as strings, like the others.
ComparePartsFrom_as_strings(id1_parts, id2_parts, k) ==
    IF k > Min(Len(id1_parts), Len(id2_parts))
    THEN IF Len(id1_parts) < Len(id2_parts) THEN -1
         ELSE IF Len(id1_parts) > Len(id2_parts) THEN 1
         ELSE 0
    ELSE LET id1 == id1_parts[k]
             id2 == id2_parts[k]
             is_num1 == isdigit(id1)
             is_num2 == isdigit(id2)
         IN  IF is_num1 = is_num2
             THEN IF StrLess(id1, id2) THEN -1
                  ELSE IF StrLess(id2, id1) THEN 1
                  ELSE ComparePartsFrom_as_strings(id1_parts, id2_parts, k + 1)
             ELSE IF is_num1 /\ ~is_num2 THEN -1
             ELSE 1

RECURSIVE ComparePartsFrom(_, _, _)
\* The loop of compare_prerelease from the k-th pair of the zip on, and the
\* comparison of the lengths after it.
ComparePartsFrom(id1_parts, id2_parts, k) ==
    IF k > Min(Len(id1_parts), Len(id2_parts))
    THEN IF Len(id1_parts) < Len(id2_parts) THEN -1
         ELSE IF Len(id1_parts) > Len(id2_parts) THEN 1
         ELSE 0
    ELSE LET id1 == id1_parts[k]
             id2 == id2_parts[k]
             is_num1 == isdigit(id1)
             is_num2 == isdigit(id2)
         IN  IF is_num1 /\ is_num2
             THEN IF int(id1) < int(id2) THEN -1
                  ELSE IF int(id1) > int(id2) THEN 1
                  ELSE ComparePartsFrom(id1_parts, id2_parts, k + 1)
             ELSE IF ~is_num1 /\ ~is_num2
             THEN IF StrLess(id1, id2) THEN -1
                  ELSE IF StrLess(id2, id1) THEN 1
                  ELSE ComparePartsFrom(id1_parts, id2_parts, k + 1)
             ELSE IF is_num1 /\ ~is_num2 THEN -1
             ELSE 1

\* compare_prerelease with the verdicts of its first two tests exchanged.
compare_prerelease_release_first(self, other) ==
    IF Truthy(self.prerelease) /\ ~Truthy(other.prerelease) THEN 1
    ELSE IF ~Truthy(self.prerelease) /\ Truthy(other.prerelease) THEN -1
    ELSE IF ~Truthy(self.prerelease) /\ ~Truthy(other.prerelease) THEN 0
    ELSE ComparePartsFrom(split(self.prerelease), split(other.prerelease), 1)

compare_prerelease(self, other) ==
    IF Truthy(self.prerelease) /\ ~Truthy(other.prerelease) THEN -1
    ELSE IF ~Truthy(self.prerelease) /\ Truthy(other.prerelease) THEN 1
    ELSE IF ~Truthy(self.prerelease) /\ ~Truthy(other.prerelease) THEN 0
    ELSE ComparePartsFrom(split(self.prerelease), split(other.prerelease), 1)

\* __lt__ returning pre_cmp != 1.
__lt__or_equal(self, other) ==
    LET core_cmp == compare_core(self, other)
    IN  IF core_cmp = -1 THEN TRUE
        ELSE IF core_cmp = 1 THEN FALSE
        ELSE compare_prerelease(self, other) # 1

__lt__(self, other) ==
    LET core_cmp == compare_core(self, other)
    IN  IF core_cmp = -1 THEN TRUE
        ELSE IF core_cmp = 1 THEN FALSE
        ELSE compare_prerelease(self, other) = -1

\* __eq__ comparing the build metadata too.
__eq__with_build(self, other) ==
    /\ compare_core(self, other) = 0
    /\ compare_prerelease(self, other) = 0
    /\ self.build = other.build

__eq__(self, other) ==
    compare_core(self, other) = 0 /\ compare_prerelease(self, other) = 0

\* object.__ne__: the negation of __eq__.
__ne__(self, other) == ~__eq__(self, other)

\* The operators functools.total_ordering derives from __lt__.
__gt__(self, other) == ~__lt__(self, other) /\ __ne__(self, other)

__le__(self, other) == __lt__(self, other) \/ __eq__(self, other)

__ge__(self, other) == ~__lt__(self, other)

----------------------------------------------------------------------------
(* The callers: version strings handed to Version(...).                    *)

\* Most dot-separated identifiers in a generated prerelease.
MaxIds == 2

\* Most characters following the core in a string handed to the parser.
MaxTail == 3

RECURSIVE Concat(_)
\* The concatenation of a sequence of strings.
Concat(ss) == IF ss = <<>> THEN <<>> ELSE Head(ss) \o Concat(Tail(ss))

RECURSIVE StringsUpTo(_, _)
\* Every string of at most n characters of C.
StringsUpTo(C, n) ==
    IF n = 0 THEN {<<>>}
    ELSE LET shorter == StringsUpTo(C, n - 1)
         IN  shorter \cup {Append(x, c) : x \in shorter, c \in C}

RECURSIVE Dotted(_, _)
\* Every "."-joined run of 1..n of the identifiers ids.
Dotted(ids, n) ==
    IF n <= 1 THEN ids
    ELSE LET shorter == Dotted(ids, n - 1)
         IN  shorter \cup {x \o <<".">> \o i : x \in shorter, i \in ids}

BaseCore == <<"1", ".", "0", ".", "2">>

OtherCores ==
    {<<"1", ".", "0", ".", "1", "0">>,
     <<"1", ".", "2", ".", "0">>,
     <<"2", ".", "0", ".", "0">>}

\* Numeric identifiers whose order as integers and as strings differ, and
\* an alphanumeric one.
OrderIdents == {<<"2">>, <<"1", "0">>, <<"b">>}

OrderBuilds == {<<"+", "1">>, <<"+", "b", ".", "0", "1">>}

\* Tags of the compatibility grammar.
OrderTags ==
    {<<"b">>, <<"B">>, <<"b", "2">>, <<"b", "1", "0">>, <<"b", "0", "2">>,
     <<"r", "c", "2">>}

\* What follows BaseCore.
OrderSuffixes ==
    {<<>>}
    \cup {<<"-">> \o x : x \in Dotted(OrderIdents, MaxIds)}
    \cup {<<"-", "B">>, <<"-", "b", "-", "2">>, <<"-", "b", "-", "1", "0">>,
          <<"-", "b", "2">>}
    \cup {x \o y : x \in {<<>>, <<"-", "b">>, <<"-", "b", "-", "2">>},
                   y \in OrderBuilds}
    \cup OrderTags

\* Strings neither pattern matches.
OrderInvalid ==
    {<<"1", ".", "0">>, <<"0", "1", ".", "0", ".", "2">>,
     <<"1", ".", "0", ".", "2", "-">>}

\* The pairs <<left, right>> of main's to_test.
to_test ==
    {<<<<"1", ".", "0", ".", "0">>,
       <<"2", ".", "0", ".", "0">>>>,
     <<<<"1", ".", "0", ".", "0">>,
       <<"1", ".", "4", "2", ".", "0">>>>,
     <<<<"1", ".", "2", ".", "0">>,
       <<"1", ".", "2", ".", "4", "2">>>>,
     <<<<"1", ".", "1", ".", "0", "-", "a", "l", "p", "h", "a">>,
       <<"1", ".", "2", ".", "0", "-", "a", "l", "p", "h", "a", ".", "1">>>>,
     <<<<"1", ".", "0", ".", "1", "b">>,
       <<"1", ".", "0", ".", "1", "0", "-", "a", "l", "p", "h", "a", ".", "b", "e", "t", "a">>>>,
     <<<<"1", ".", "0", ".", "0", "-", "r", "c", ".", "1">>,
       <<"1", ".", "0", ".", "0">>>>}

\* The strings the comparing caller constructs Versions from.
OrderInputs ==
    {BaseCore \o x : x \in OrderSuffixes}
    \cup {c \o x : c \in OtherCores,
                   x \in {<<>>, <<"-", "b">>, <<"b", "2">>, <<"+", "1">>}}
    \cup OrderInvalid
    \cup {t[1] : t \in to_test} \cup {t[2] : t \in to_test}

ParseCores == {<<"1", ".", "2", ".", "0">>, <<"1", ".", "0">>}

ParsePrefixes == {<<>>, <<"1">>, <<"-">>, <<" ">>, <<"\n">>}

TailChars == {"0", "1", "a", "r", "c", ".", "-", "+", " ", "\n"}

\* The strings the validating caller hands to Version(...).
ParseInputs ==
    {Concat(<<x, c, y>>) :
        x \in ParsePrefixes, c \in ParseCores, y \in StringsUpTo(TailChars, MaxTail)}

----------------------------------------------------------------------------
(* The state machine.                                                      *)

NoVersion == [raised |-> TRUE]

\* Version(s) for every string the comparing caller uses, computed once.
Constructed == [s \in OrderInputs |-> __init__(s)]

\* Version(s) returns an object; the caller keeps it and the one before.
ConstructOk(s, v) ==
    /\ ~v.raised
    /\ text' = s
    /\ outcome' = "ok"
    /\ a' = v
    /\ b' = a

\* Version(s) raises ValueError; the caller keeps what it had.
ConstructRaises(s, v) ==
    /\ v.raised
    /\ text' = s
    /\ outcome' = "ValueError"
    /\ UNCHANGED <<a, b>>

Init ==
    /\ text = None
    /\ outcome = "none"
    /\ a = NoVersion
    /\ b = NoVersion

Next ==
    \E s \in OrderInputs :
        \/ ConstructOk(s, Constructed[s])
        \/ ConstructRaises(s, Constructed[s])

Spec == Init /\ [][Next]_vars

\* A caller that validates one string.
ParseInit ==
    /\ text \in ParseInputs
    /\ outcome = "pending"
    /\ a = NoVersion
    /\ b = NoVersion

\* Version(text) returns.
ValidateOk ==
    /\ outcome = "pending"
    /\ ConstructOk(text, __init__(text))

\* Version(text) raises.
ValidateRaises ==
    /\ outcome = "pending"
    /\ ConstructRaises(text, __init__(text))

ParseNext == ValidateOk \/ ValidateRaises

ParseSpec == ParseInit /\ [][ParseNext]_vars

----------------------------------------------------------------------------
(* The grammars as the specification writes them, on whole strings.        *)

AllIn(x, C) == \A i \in DOMAIN x : x[i] \in C

\* "0" | nonzero-digit digit*
NumberNoLeadingZero(x) ==
    /\ x # <<>>
    /\ AllIn(x, Digits)
    /\ (Len(x) = 1 \/ x[1] # "0")

\* major "." minor "." patch
GrammarCore(x) ==
    LET parts == split(x)
    IN  Len(parts) = 3 /\ \A k \in 1..3 : NumberNoLeadingZero(parts[k])

\* pre-ident: digits without a leading zero, or a run of [0-9A-Za-z-] with
\* a letter or a hyphen in it.
GrammarPreIdent(x) ==
    /\ x # <<>>
    /\ AllIn(x, IdentChars)
    /\ (NumberNoLeadingZero(x) \/ \E i \in DOMAIN x : x[i] \notin Digits)

GrammarPrerelease(x) ==
    \A k \in DOMAIN split(x) : GrammarPreIdent(split(x)[k])

\* build-ident: a non-empty run of [0-9A-Za-z-].
GrammarBuild(x) ==
    \A k \in DOMAIN split(x) :
        split(x)[k] # <<>> /\ AllIn(split(x)[k], IdentChars)

\* version := major "." minor "." patch ["-" prerelease] ["+" build]
DerivesStrict(s) ==
    \E i \in 0..Len(s) : \E j \in i..Len(s) :
        /\ GrammarCore(SubSeq(s, 1, i))
        /\ (j = i \/ (s[i + 1] = "-" /\ GrammarPrerelease(SubSeq(s, i + 2, j))))
        /\ (j = Len(s)
            \/ (s[j + 1] = "+" /\ GrammarBuild(SubSeq(s, j + 2, Len(s)))))

\* The prefixes of a tag: "rc" or a single letter.
TagPrefixes == {<<"r", "c">>} \cup {<<l>> : l \in Letters}

\* The ways s reads as core, tag prefix, digits: <<i, j>> with the core
\* s[1..i], the prefix s[i+1..j] and the digits the rest.
TaggedForms(s) ==
    {f \in (0..Len(s)) \X (0..Len(s)) :
        /\ f[1] < f[2]
        /\ GrammarCore(SubSeq(s, 1, f[1]))
        /\ SubSeq(s, f[1] + 1, f[2]) \in TagPrefixes
        /\ AllIn(SubSeq(s, f[2] + 1, Len(s)), Digits)}

\* version := major "." minor "." patch [tag]
DerivesCompat(s) == GrammarCore(s) \/ TaggedForms(s) # {}

CoreOf(s, f) == SubSeq(s, 1, f[1])

PrefixOf(s, f) == SubSeq(s, f[1] + 1, f[2])

DigitsOf(s, f) == SubSeq(s, f[2] + 1, Len(s))

RECURSIVE StripLeadingZeros(_)
\* The digits d without their leading zeros ("0" when all are zeros).
StripLeadingZeros(d) ==
    IF Len(d) > 1 /\ Head(d) = "0" THEN StripLeadingZeros(Tail(d)) ELSE d

----------------------------------------------------------------------------
(* Claims about the parser, checked under ParseSpec.                       *)

\* C2: Version(text) succeeds only when the whole of text, first character
\* to last, is derived by the strict or by the compatibility grammar; with
\* any character before or after a valid version it raises.
C2_OnlyWholeStringDerivations ==
    outcome = "ok" => DerivesStrict(text) \/ DerivesCompat(text)

\* The ways text reads as a valid core, "-", and a rest made of identifier
\* characters and dots: the positions of the "-".
DashForms(s) ==
    {i \in 1..Len(s) :
        /\ s[i] = "-"
        /\ GrammarCore(SubSeq(s, 1, i - 1))
        /\ AllIn(SubSeq(s, i + 1, Len(s)), IdentChars \cup {"."})}

\* C3: a string core "-" prerelease with a valid core is accepted if and
\* only if every dot-separated identifier of the prerelease is a non-empty
\* run of [0-9A-Za-z-] that is numeric without a leading zero or holds a
\* letter or hyphen, whatever its first character.
C3_PrereleaseIdentifiersAccepted ==
    \A i \in DashForms(text) :
        outcome # "pending" =>
            (outcome = "ok" <=> GrammarPrerelease(SubSeq(text, i + 1, Len(text))))

\* C5: an input core, tag prefix p, digits d has the prerelease
\* p "-" decimal(int(d)) and equals the strict Version of
\* core "-" p "-" decimal(int(d)); without digits the prerelease is p; the
\* build is absent in both cases.
C5_TagNormalization ==
    \A f \in TaggedForms(text) :
        outcome # "pending" =>
            LET p == PrefixOf(text, f)
                d == DigitsOf(text, f)
                spelled == p \o <<"-">> \o StripLeadingZeros(d)
            IN  /\ outcome = "ok"
                /\ a.build = None
                /\ a.version = text
                /\ d = <<>> => a.prerelease = p
                /\ d # <<>> =>
                    /\ a.prerelease = spelled
                    /\ LET strict == __init__(CoreOf(text, f) \o <<"-">> \o spelled)
                       IN  /\ ~strict.raised
                           /\ strict.prerelease = spelled
                           /\ __eq__(a, strict)
                           /\ __eq__(strict, a)

\* C5's case: a tag whose digits have a leading zero was normalized.
C5_Witness ==
    /\ outcome = "ok"
    /\ \E f \in TaggedForms(text) :
           /\ Len(DigitsOf(text, f)) >= 2
           /\ Head(DigitsOf(text, f)) = "0"
           /\ PrefixOf(text, f) = <<"a">>
           /\ a.prerelease = <<"a", "-", "1">>

----------------------------------------------------------------------------
(* Claims about the ordering, checked under Spec.                          *)

\* Every Version the comparing caller can construct.
Objects == {v \in {Constructed[s] : s \in OrderInputs} : ~v.raised}

\* The caller holds two Versions.
Both == ~a.raised /\ ~b.raised

Core(v) == <<v.major, v.minor, v.patch>>

HasPrerelease(v) == v.prerelease # None

ExactlyOne(p, q, r) ==
    (p \/ q \/ r) /\ ~(p /\ q) /\ ~(p /\ r) /\ ~(q /\ r)

\* C1: for every pair of Versions exactly one of a < b, a == b, a > b
\* holds, and a < b and b < c imply a < c for every Version c.
C1_StrictTotalOrder ==
    Both =>
        /\ ExactlyOne(__lt__(a, b), __eq__(a, b), __gt__(a, b))
        /\ \A c \in Objects : __lt__(a, b) /\ __lt__(b, c) => __lt__(a, c)

\* C1's case: a chain a < b < c of a tagged Version, one with a numeric and
\* an alphanumeric identifier, and one with build metadata.
C1_Witness ==
    /\ Both
    /\ TaggedForms(a.version) # {}
    /\ HasPrerelease(b)
    /\ \E k, l \in DOMAIN split(b.prerelease) :
           isdigit(split(b.prerelease)[k]) /\ ~isdigit(split(b.prerelease)[l])
    /\ __lt__(a, b)
    /\ \E c \in Objects : c.build # None /\ __lt__(b, c) /\ __lt__(a, c)

\* C4: Versions with the same core and prerelease and different or absent
\* build metadata are equal, neither is less than the other, and each
\* compares to every Version c as the other does.
C4_BuildIgnored ==
    Both /\ Core(a) = Core(b) /\ a.prerelease = b.prerelease
         /\ a.build # b.build =>
        /\ __eq__(a, b)
        /\ ~__lt__(a, b)
        /\ ~__lt__(b, a)
        /\ \A c \in Objects :
               /\ __lt__(a, c) = __lt__(b, c)
               /\ __eq__(a, c) = __eq__(b, c)
               /\ __gt__(a, c) = __gt__(b, c)

\* C4's case: a tagged Version without build metadata was compared with the
\* strict spelling of it that has build metadata.
C4_Witness ==
    /\ Both
    /\ Core(a) = Core(b)
    /\ a.prerelease = b.prerelease
    /\ TaggedForms(a.version) # {}
    /\ a.build = None
    /\ b.build # None
    /\ __eq__(a, b)

\* The first component in which two cores differ.
FirstDifference(xs, ys) ==
    CHOOSE k \in 1..3 : xs[k] # ys[k] /\ \A j \in 1..(k - 1) : xs[j] = ys[j]

\* C6: when the cores differ, the first differing component, compared as
\* an integer, decides the verdict, whatever the prereleases and builds.
C6_CoreDecides ==
    Both /\ Core(a) # Core(b) =>
        LET k == FirstDifference(Core(a), Core(b))
        IN  /\ __lt__(a, b) <=> Core(a)[k] < Core(b)[k]
            /\ __gt__(a, b) <=> Core(a)[k] > Core(b)[k]
            /\ ~__eq__(a, b)

\* C6's case: a release was found less than a prerelease of a greater
\* minor and a smaller patch.
C6_Witness ==
    /\ Both
    /\ a.major = b.major
    /\ a.minor < b.minor
    /\ a.patch > b.patch
    /\ ~HasPrerelease(a)
    /\ HasPrerelease(b)
    /\ __lt__(a, b)

\* C7: with equal cores, a Version with a prerelease is less than one
\* without, in both argument orders, and two without are equal.
C7_ReleaseAbovePrerelease ==
    Both /\ Core(a) = Core(b) =>
        /\ HasPrerelease(a) /\ ~HasPrerelease(b) =>
               __lt__(a, b) /\ __gt__(b, a) /\ ~__eq__(a, b) /\ ~__lt__(b, a)
        /\ ~HasPrerelease(a) /\ HasPrerelease(b) =>
               __gt__(a, b) /\ __lt__(b, a) /\ ~__eq__(a, b) /\ ~__lt__(a, b)
        /\ ~HasPrerelease(a) /\ ~HasPrerelease(b) =>
               __eq__(a, b) /\ ~__lt__(a, b) /\ ~__gt__(a, b)

\* C7's case: a tagged prerelease was found less than the release of its
\* core.
C7_Witness ==
    /\ Both
    /\ Core(a) = Core(b)
    /\ TaggedForms(a.version) # {}
    /\ HasPrerelease(a)
    /\ ~HasPrerelease(b)
    /\ __lt__(a, b)

\* The verdict of one position: integers when both identifiers are digits,
\* code points when neither is, digits below the rest otherwise.
IdentVerdict(x, y) ==
    IF AllIn(x, Digits) /\ AllIn(y, Digits)
    THEN IF int(x) < int(y) THEN -1 ELSE IF int(x) > int(y) THEN 1 ELSE 0
    ELSE IF ~AllIn(x, Digits) /\ ~AllIn(y, Digits)
    THEN IF StrLess(x, y) THEN -1 ELSE IF StrLess(y, x) THEN 1 ELSE 0
    ELSE IF AllIn(x, Digits) THEN -1 ELSE 1

\* The verdict on two identifier sequences: that of the first position
\* whose identifiers differ; with none, the shorter sequence is lower.
SequenceVerdict(xs, ys) ==
    LET differing == {k \in 1..Min(Len(xs), Len(ys)) : xs[k] # ys[k]}
    IN  IF differing # {}
        THEN LET k == CHOOSE d \in differing : \A e \in differing : d <= e
             IN  IdentVerdict(xs[k], ys[k])
        ELSE IF Len(xs) < Len(ys) THEN -1
        ELSE IF Len(xs) > Len(ys) THEN 1
        ELSE 0

\* C8: with equal cores and two prereleases, compare_prerelease returns
\* the verdict of the first position whose identifiers differ, and with no
\* such position that of the lengths.
C8_PrereleasePositions ==
    Both /\ Core(a) = Core(b) /\ HasPrerelease(a) /\ HasPrerelease(b) =>
        LET verdict == SequenceVerdict(split(a.prerelease), split(b.prerelease))
        IN  /\ compare_prerelease(a, b) = verdict
            /\ __lt__(a, b) <=> verdict = -1
            /\ __eq__(a, b) <=> verdict = 0

\* C8's case: two prereleases that agree on the first identifier and differ
\* in a second, numeric one whose order as strings is the other way round.
C8_Witness ==
    /\ Both
    /\ Core(a) = Core(b)
    /\ HasPrerelease(a)
    /\ HasPrerelease(b)
    /\ LET xs == split(a.prerelease)
           ys == split(b.prerelease)
       IN  /\ Len(xs) = 2
           /\ Len(ys) = 2
           /\ xs[1] = ys[1]
           /\ isdigit(xs[2])
           /\ isdigit(ys[2])
           /\ StrLess(ys[2], xs[2])
           /\ compare_prerelease(a, b) = -1

\* C9: a < b gives b > a and b != a, a > b holds exactly when b < a does,
\* and <= and >= agree with them.
C9_OperatorsConsistent ==
    Both =>
        /\ __lt__(a, b) => __gt__(b, a) /\ __ne__(b, a)
        /\ __gt__(a, b) <=> __lt__(b, a)
        /\ __ge__(a, b) <=> __le__(b, a)
        /\ __ne__(a, b) <=> __lt__(a, b) \/ __lt__(b, a)

\* C9's case: main's three assertions on a pair of to_test whose sides
\* have one core, a prerelease on the left and none on the right.
C9_Witness ==
    /\ Both
    /\ <<a.version, b.version>> \in to_test
    /\ Core(a) = Core(b)
    /\ HasPrerelease(a)
    /\ __lt__(a, b)
    /\ __gt__(b, a)
    /\ __ne__(b, a)

\* C10: tagged inputs of one core and one tag prefix are ordered by the
\* integer value of their digits, and equal when the values are equal.
C10_TagsOrderNumerically ==
    Both =>
        \A f \in TaggedForms(a.version) : \A g \in TaggedForms(b.version) :
            /\ CoreOf(a.version, f) = CoreOf(b.version, g)
            /\ PrefixOf(a.version, f) = PrefixOf(b.version, g)
            /\ DigitsOf(a.version, f) # <<>>
            /\ DigitsOf(b.version, g) # <<>>
            => LET m == int(DigitsOf(a.version, f))
                   n == int(DigitsOf(b.version, g))
               IN  /\ m < n => __lt__(a, b)
                   /\ m = n => __eq__(a, b)

=============================================================================
